---- MODULE Spec2Model ----
(***************************************************************************)
(* The connection sniffer of caddy-trojan (modules/listener/listener.go):  *)
(* the accept loop, the per-connection goroutine that scans the first      *)
(* HeaderLen+2 bytes one Read at a time, the bounded channel l.conns, the  *)
(* close signal l.closed, the exposed Accept and Close, and the credential *)
(* ledger (app.Upstream) the goroutines validate against and report to.    *)
(***************************************************************************)
EXTENDS Integers, Sequences, FiniteSets, TLC

\* trojan.HeaderLen, the width of a key. The protocol value is 56; the model
\* scans a key of this many bytes followed by two more.
HeaderLen == 2
\* Capacity of l.conns. NewListener makes it 8; the model uses a smaller queue
\* so that a full queue is reached with few connections.
QueueCap == 1
\* Connections the wrapped raw listener delivers.
NumConns == 2
\* Read calls that return, over all connections.
MaxReads == 4

\* The line-feed byte the scan looks for.
LF == 10
\* Bytes a client may send: line-feed, carriage return, and the key byte 'a'.
Bytes == {LF, 13, 97}
\* The one key the administrator adds and deletes: HeaderLen times 'a'.
Key == [i \in 1..HeaderLen |-> 97]
\* make([]byte, trojan.HeaderLen+2): a zeroed buffer.
NewBuf == [i \in 1..(HeaderLen + 2) |-> 0]
\* What trojan.HandleWithDialer may return: (nr, nw, err # nil).
RelayResults == {<<0, 0, TRUE>>, <<2, 1, FALSE>>}

Conns == 1..NumConns

\* Goroutines that call Listener.Close.
NumClosers == 2
Closers == 1..NumClosers
\* HTTP requests served by the handler.
NumReqs == 1
Reqs == 1..NumReqs
\* A key of the right length that is never put in the ledger.
OtherKey == [i \in 1..HeaderLen |-> 98]
\* "Basic ", the prefix trimmed from Proxy-Authorization.
Basic == <<66, 97, 115, 105, 99, 32>>
\* Proxy-Authorization values: absent, the bare key, "Basic " and the key,
\* "Basic " and an unknown key, "Basic " and a value one byte too long.
Auths == {<<>>, Key, Basic \o Key, Basic \o OtherKey, Basic \o Key \o <<97>>}
\* What a websocket peer sends first: nothing, a header with the key, a
\* header with an unknown key.
Frames == {<<>>, Key \o <<13, LF>>, OtherKey \o <<13, LF>>}
\* The requests: method, r.ProtoMajor, Proxy-Authorization, whether the
\* request is a websocket upgrade and how Upgrade ends, the peer's first bytes.
Requests ==
    {q \in [method : {"CONNECT", "GET"}, proto : {1, 2}, auth : Auths,
            upgrade : {"none", "err", "ok"}, frame : Frames] :
        q.upgrade # "ok" => q.frame = <<>>}
    \cup [method : {"CONNECT", "GET"}, proto : {1, 2}, auth : Auths,
          upgrade : {"ok"}, frame : Frames]

VARIABLES
    closed,     \* l.closed has been closed
    conns,      \* l.conns: the buffered channel, oldest entry first
    loopPc,     \* the accept loop: "run" or "returned"
    pc,         \* per connection: where its goroutine stands
    n,          \* per connection: the loop variable n
    b,          \* per connection: the buffer b
    got,        \* per connection: the bytes Read has actually delivered, in order
    prefix,     \* per connection: the slice given to rawconn.RewindConn
    cause,      \* per connection: why the scan ended early ("eof", "err", "lf")
                \* or after validation ("invalid"); "none" otherwise
    nclose,     \* per connection: calls of c.Close() made by the sniffer
    validated,  \* per connection: "none", or "ok" / "rejected" from up.Validate
    res,        \* per connection: what HandleWithDialer returned
    ncons,      \* per connection: calls of up.Consume
    ledger,     \* the credential ledger: key -> <<up, down>>
    accPc,      \* the caller of the exposed Accept: "idle" or "waiting"
    accRet,     \* what the last exposed Accept returned
    delivered,  \* the connections the exposed Accept has returned, in order
    reads,      \* Read calls that have returned so far
    closePc,    \* per caller of Close: "idle", "default", "returned", "panic"
    hcfg,       \* the handler's Connect and WebSocket options
    hpc,        \* per request: where ServeHTTP stands
    hreq,       \* per request: the request being served
    hkey,       \* per request: the key that passed up.Validate
    hres,       \* per request: what HandleWithDialer returned
    hncons,     \* per request: calls of up.Consume
    hret,       \* per request: how ServeHTTP returned
    ledger0     \* the ledger as it was when the relays under watch began

connVars == <<pc, n, b, got, prefix, cause, nclose, validated, res, ncons>>
accVars == <<accPc, accRet, delivered>>
\* State outside the accept loop, the connection goroutines and Accept.
handlerVars == <<hcfg, hpc, hreq, hkey, hres, hncons, hret>>
extVars == <<closePc, handlerVars, ledger0>>
vars == <<closed, conns, loopPc, connVars, ledger, accVars, reads, extVars>>

\* No relay has returned yet.
NoRes == <<0, 0, FALSE>>
\* No request is being served.
NoReq == [method |-> "none", proto |-> 0, auth |-> <<>>, upgrade |-> "none",
          frame |-> <<>>]
\* No exposed Accept has returned yet.
NoRet == [err |-> "none", conn |-> 0, prefix |-> <<>>]

Init ==
    /\ closed = FALSE
    /\ conns = <<>>
    /\ loopPc = "run"
    /\ pc = [c \in Conns |-> "none"]
    /\ n = [c \in Conns |-> 0]
    /\ b = [c \in Conns |-> NewBuf]
    /\ got = [c \in Conns |-> <<>>]
    /\ prefix = [c \in Conns |-> <<>>]
    /\ cause = [c \in Conns |-> "none"]
    /\ nclose = [c \in Conns |-> 0]
    /\ validated = [c \in Conns |-> "none"]
    /\ res = [c \in Conns |-> NoRes]
    /\ ncons = [c \in Conns |-> 0]
    /\ ledger \in {<<>>, [k \in {Key} |-> <<0, 0>>]}
    /\ accPc = "idle"
    /\ accRet = NoRet
    /\ delivered = <<>>
    /\ reads = 0
    /\ closePc = [k \in Closers |-> "idle"]
    /\ hcfg = [connect |-> FALSE, websocket |-> FALSE]
    /\ hpc = [r \in Reqs |-> "none"]
    /\ hreq = [r \in Reqs |-> NoReq]
    /\ hkey = [r \in Reqs |-> <<>>]
    /\ hres = [r \in Reqs |-> NoRes]
    /\ hncons = [r \in Reqs |-> 0]
    /\ hret = [r \in Reqs |-> "none"]
    /\ ledger0 = <<>>

----------------------------------------------------------------------------
\* The credential ledger (app.Upstream).

\* up.Validate(key): membership.
Validate(l, k) == k \in DOMAIN l

\* up.Consume(key, nr, nw): add to the counters; nothing if the key is absent.
Consume(l, k, nr, nw) ==
    IF k \in DOMAIN l
    THEN [l EXCEPT ![k] = <<l[k][1] + nr, l[k][2] + nw>>]
    ELSE l

\* up.AddKey (and up.Add, on the hash of the password): insert with zero
\* counters if absent.
AddKey(l, k) ==
    IF k \in DOMAIN l THEN l
    ELSE [x \in DOMAIN l \cup {k} |-> IF x = k THEN <<0, 0>> ELSE l[x]]

\* up.DelKey (and up.Del, on the hash of the password): remove the entry.
DelKey(l, k) == [x \in DOMAIN l \ {k} |-> l[x]]

\* Admin.AddUser with the key (or its password) in the request body.
AddUser ==
    /\ ledger' = AddKey(ledger, Key)
    /\ UNCHANGED <<extVars, closed, conns, loopPc, connVars, accVars, reads>>

\* Admin.DelUser with the key (or its password) in the request body.
DelUser ==
    /\ ledger' = DelKey(ledger, Key)
    /\ UNCHANGED <<extVars, closed, conns, loopPc, connVars, accVars, reads>>

----------------------------------------------------------------------------
\* Listener.loop: the accept loop.

\* A slip: the loop handles each connection itself, so the next raw Accept
\* waits until the connections before it are finished.
RawAcceptInline(c) ==
    /\ loopPc = "run"
    /\ pc[c] = "none"
    /\ \A d \in Conns : d < c => pc[d] = "done"
    /\ pc' = [pc EXCEPT ![c] = "read"]
    /\ UNCHANGED <<extVars, closed, conns, loopPc, n, b, got, prefix, cause,
                   nclose, validated, res, ncons, ledger, accVars, reads>>

\* l.Listener.Accept() returns connection c; its goroutine starts.
RawAccept(c) ==
    /\ loopPc = "run"
    /\ pc[c] = "none"
    /\ \A d \in Conns : d < c => pc[d] # "none"
    /\ pc' = [pc EXCEPT ![c] = "read"]
    /\ UNCHANGED <<extVars, closed, conns, loopPc, n, b, got, prefix, cause, nclose,
                   validated, res, ncons, ledger, accVars, reads>>

\* l.Listener.Accept() returns an error: the loop returns once the listener is
\* closed, and otherwise logs and goes on.
RawAcceptErr ==
    /\ loopPc = "run"
    /\ closed
    /\ loopPc' = "returned"
    /\ UNCHANGED <<extVars, closed, conns, connVars, ledger, accVars, reads>>

----------------------------------------------------------------------------
\* The goroutine of one connection.

\* The loop's post statement and condition: n += 1; n < trojan.HeaderLen+2.
NextPc(m) == IF m + 1 < HeaderLen + 2 THEN "read" ELSE "validate"

\* b[n] == 0x0a && n < trojan.HeaderLen+1
EarlyLF(buf, m) == buf[m + 1] = LF /\ m < HeaderLen + 1

\* The slice rewound after an early line-feed: b[:n+1].
LFPrefix(buf, m) == SubSeq(buf, 1, m + 1)

\* The slice rewound after a read error that is not io.EOF: b[:n+1].
ErrPrefix(buf, m) == SubSeq(buf, 1, m + 1)

\* A slip: only the key part of the buffer is rewound.
InvalidPrefixKeyOnly(buf) == SubSeq(buf, 1, HeaderLen)

\* The slice rewound after a failed validation: b.
InvalidPrefix(buf) == buf

\* The key looked up and reported: b[:trojan.HeaderLen].
KeyOf(buf) == SubSeq(buf, 1, HeaderLen)

\* A slip: io.EOF is handled like any other read error.
ReadEOFRewinds(c) ==
    /\ pc[c] = "read"
    /\ reads < MaxReads
    /\ reads' = reads + 1
    /\ prefix' = [prefix EXCEPT ![c] = ErrPrefix(b[c], n[c])]
    /\ cause' = [cause EXCEPT ![c] = "eof"]
    /\ pc' = [pc EXCEPT ![c] = "send"]
    /\ UNCHANGED <<extVars, closed, conns, loopPc, n, b, got, nclose, validated, res,
                   ncons, ledger, accVars>>

\* c.Read returns (0, io.EOF): log, c.Close(), return.
ReadEOF(c) ==
    /\ pc[c] = "read"
    /\ reads < MaxReads
    /\ reads' = reads + 1
    /\ cause' = [cause EXCEPT ![c] = "eof"]
    /\ nclose' = [nclose EXCEPT ![c] = @ + 1]
    /\ pc' = [pc EXCEPT ![c] = "done"]
    /\ UNCHANGED <<extVars, closed, conns, loopPc, n, b, got, prefix, validated,
                   res, ncons, ledger, accVars>>

\* c.Read returns (0, err), err not io.EOF: log, then send the rewound
\* connection on l.conns with no look at l.closed.
ReadErr(c) ==
    /\ pc[c] = "read"
    /\ reads < MaxReads
    /\ reads' = reads + 1
    /\ prefix' = [prefix EXCEPT ![c] = ErrPrefix(b[c], n[c])]
    /\ cause' = [cause EXCEPT ![c] = "err"]
    /\ pc' = [pc EXCEPT ![c] = "send"]
    /\ UNCHANGED <<extVars, closed, conns, loopPc, n, b, got, nclose, validated, res,
                   ncons, ledger, accVars>>

\* c.Read returns (0, nil): continue, which runs the post statement n += 1.
ReadZero(c) ==
    /\ pc[c] = "read"
    /\ reads < MaxReads
    /\ reads' = reads + 1
    /\ n' = [n EXCEPT ![c] = @ + 1]
    /\ pc' = [pc EXCEPT ![c] = NextPc(n[c])]
    /\ UNCHANGED <<extVars, closed, conns, loopPc, b, got, prefix, cause, nclose,
                   validated, res, ncons, ledger, accVars>>

\* c.Read returns (1, nil) with byte x stored in b[n].
ReadByte(c) ==
    /\ pc[c] = "read"
    /\ reads < MaxReads
    /\ reads' = reads + 1
    /\ \E x \in Bytes :
        LET buf == [b[c] EXCEPT ![n[c] + 1] = x] IN
        /\ b' = [b EXCEPT ![c] = buf]
        /\ got' = [got EXCEPT ![c] = Append(@, x)]
        /\ IF EarlyLF(buf, n[c])
           THEN /\ prefix' = [prefix EXCEPT ![c] = LFPrefix(buf, n[c])]
                /\ cause' = [cause EXCEPT ![c] = "lf"]
                /\ pc' = [pc EXCEPT ![c] = "select"]
                /\ n' = n
           ELSE /\ n' = [n EXCEPT ![c] = @ + 1]
                /\ pc' = [pc EXCEPT ![c] = NextPc(n[c])]
                /\ UNCHANGED <<extVars, prefix, cause>>
    /\ UNCHANGED <<extVars, closed, conns, loopPc, nclose, validated, res, ncons,
                   ledger, accVars>>

\* up.Validate(b[:trojan.HeaderLen]) after the loop.
ValidateStep(c) ==
    /\ pc[c] = "validate"
    /\ LET ok == Validate(ledger, KeyOf(b[c])) IN
        /\ validated' = [validated EXCEPT ![c] = IF ok THEN "ok" ELSE "rejected"]
        /\ IF ok
           THEN /\ pc' = [pc EXCEPT ![c] = "relay"]
                /\ UNCHANGED <<extVars, prefix, cause>>
           ELSE /\ prefix' = [prefix EXCEPT ![c] = InvalidPrefix(b[c])]
                /\ cause' = [cause EXCEPT ![c] = "invalid"]
                /\ pc' = [pc EXCEPT ![c] = "select"]
    /\ UNCHANGED <<extVars, closed, conns, loopPc, n, b, got, nclose, res, ncons,
                   ledger, accVars, reads>>

\* A slip: the return after c.Close() is missing, so the send follows.
SelectClosedFallsThrough(c) ==
    /\ pc[c] = "select"
    /\ closed
    /\ nclose' = [nclose EXCEPT ![c] = @ + 1]
    /\ pc' = [pc EXCEPT ![c] = "send"]
    /\ UNCHANGED <<extVars, closed, conns, loopPc, n, b, got, prefix, cause,
                   validated, res, ncons, ledger, accVars, reads>>

\* select { case <-l.closed: c.Close() ... }; return
SelectClosed(c) ==
    /\ pc[c] = "select"
    /\ closed
    /\ nclose' = [nclose EXCEPT ![c] = @ + 1]
    /\ pc' = [pc EXCEPT ![c] = "done"]
    /\ UNCHANGED <<extVars, closed, conns, loopPc, n, b, got, prefix, cause, validated,
                   res, ncons, ledger, accVars, reads>>

\* select { ... default: } with l.closed still open: go on to the send.
SelectDefault(c) ==
    /\ pc[c] = "select"
    /\ ~closed
    /\ pc' = [pc EXCEPT ![c] = "send"]
    /\ UNCHANGED <<extVars, closed, conns, loopPc, n, b, got, prefix, cause, nclose,
                   validated, res, ncons, ledger, accVars, reads>>

\* A slip: the channel is made without a capacity limit on its backlog.
SendUnbounded(c) ==
    /\ pc[c] = "send"
    /\ conns' = Append(conns, [conn |-> c, prefix |-> prefix[c]])
    /\ pc' = [pc EXCEPT ![c] = "done"]
    /\ UNCHANGED <<extVars, closed, loopPc, n, b, got, prefix, cause, nclose, validated,
                   res, ncons, ledger, accVars, reads>>

\* l.conns <- rawconn.RewindConn(c, prefix): blocks while the channel is full.
Send(c) ==
    /\ pc[c] = "send"
    /\ Len(conns) < QueueCap
    /\ conns' = Append(conns, [conn |-> c, prefix |-> prefix[c]])
    /\ pc' = [pc EXCEPT ![c] = "done"]
    /\ UNCHANGED <<extVars, closed, loopPc, n, b, got, prefix, cause, nclose, validated,
                   res, ncons, ledger, accVars, reads>>

\* trojan.HandleWithDialer returns (nr, nw, err).
Relay(c) ==
    /\ pc[c] = "relay"
    /\ \E r \in RelayResults : res' = [res EXCEPT ![c] = r]
    /\ pc' = [pc EXCEPT ![c] = "consume"]
    /\ UNCHANGED <<extVars, closed, conns, loopPc, n, b, got, prefix, cause, nclose,
                   validated, ncons, ledger, accVars, reads>>

\* A slip: the counts are reported only when the relay returned no error.
ConsumeOnSuccessOnly(c) ==
    /\ pc[c] = "consume"
    /\ IF res[c][3]
       THEN UNCHANGED <<ledger, ncons>>
       ELSE /\ ledger' = Consume(ledger, KeyOf(b[c]), res[c][1], res[c][2])
            /\ ncons' = [ncons EXCEPT ![c] = @ + 1]
    /\ pc' = [pc EXCEPT ![c] = "defer"]
    /\ UNCHANGED <<extVars, closed, conns, loopPc, n, b, got, prefix, cause,
                   nclose, validated, res, accVars, reads>>

\* up.Consume(b[:trojan.HeaderLen], nr, nw)
ConsumeStep(c) ==
    /\ pc[c] = "consume"
    /\ ledger' = Consume(ledger, KeyOf(b[c]), res[c][1], res[c][2])
    /\ ncons' = [ncons EXCEPT ![c] = @ + 1]
    /\ pc' = [pc EXCEPT ![c] = "defer"]
    /\ UNCHANGED <<extVars, closed, conns, loopPc, n, b, got, prefix, cause, nclose,
                   validated, res, accVars, reads>>

\* defer c.Close() runs as the goroutine returns.
DeferClose(c) ==
    /\ pc[c] = "defer"
    /\ nclose' = [nclose EXCEPT ![c] = @ + 1]
    /\ pc' = [pc EXCEPT ![c] = "done"]
    /\ UNCHANGED <<extVars, closed, conns, loopPc, n, b, got, prefix, cause, validated,
                   res, ncons, ledger, accVars, reads>>

----------------------------------------------------------------------------
\* The exposed listener.

\* A slip: Close also empties l.conns.
CloseDrains ==
    /\ ~closed
    /\ closed' = TRUE
    /\ conns' = <<>>
    /\ UNCHANGED <<extVars, loopPc, connVars, ledger, accVars, reads>>

\* Listener.Close: close(l.closed) unless it is closed already.
Close ==
    /\ ~closed
    /\ closed' = TRUE
    /\ UNCHANGED <<extVars, conns, loopPc, connVars, ledger, accVars, reads>>

\* Listener.Close, statement by statement, for callers that may run together.
\* The select: case <-l.closed returns nil; default goes on to close(l.closed).
CloseCheck(k) ==
    /\ \A j \in Closers : closePc[j] # "panic"
    /\ closePc[k] \in {"idle", "returned"}
    /\ closePc' = [closePc EXCEPT ![k] = IF closed THEN "returned" ELSE "default"]
    /\ UNCHANGED <<closed, conns, loopPc, connVars, ledger, accVars, reads,
                   handlerVars, ledger0>>

\* close(l.closed), then return nil. Closing a closed channel panics.
CloseFire(k) ==
    /\ \A j \in Closers : closePc[j] # "panic"
    /\ closePc[k] = "default"
    /\ closed' = TRUE
    /\ closePc' = [closePc EXCEPT ![k] = IF closed THEN "panic" ELSE "returned"]
    /\ UNCHANGED <<conns, loopPc, connVars, ledger, accVars, reads,
                   handlerVars, ledger0>>

\* A caller enters Listener.Accept and waits in its select.
AcceptCall ==
    /\ accPc = "idle"
    /\ accPc' = "waiting"
    /\ UNCHANGED <<extVars, closed, conns, loopPc, connVars, ledger, accRet, delivered,
                   reads>>

\* (nil, os.ErrClosed)
ErrClosedRet == [err |-> "ErrClosed", conn |-> 0, prefix |-> <<>>]

\* A slip: Accept receives from l.conns alone and never looks at l.closed.
AcceptMissesClosed ==
    /\ accPc = "waiting"
    /\ FALSE
    /\ UNCHANGED vars

\* case <-l.closed: return nil, os.ErrClosed
AcceptClosed ==
    /\ accPc = "waiting"
    /\ closed
    /\ accRet' = ErrClosedRet
    /\ accPc' = "idle"
    /\ UNCHANGED <<extVars, closed, conns, loopPc, connVars, ledger, delivered, reads>>

\* case c := <-l.conns: return c, nil
AcceptConn ==
    /\ accPc = "waiting"
    /\ conns # <<>>
    /\ accRet' = [err |-> "nil", conn |-> Head(conns).conn,
                  prefix |-> Head(conns).prefix]
    /\ delivered' = Append(delivered, Head(conns))
    /\ conns' = Tail(conns)
    /\ accPc' = "idle"
    /\ UNCHANGED <<extVars, closed, loopPc, connVars, ledger, reads>>

----------------------------------------------------------------------------
\* Handler.ServeHTTP.

\* UnmarshalCaddyfile on the new Handler: the subdirectives websocket and
\* connect_method set the options, before any request is served.
UnmarshalCaddyfile ==
    /\ hcfg = [connect |-> FALSE, websocket |-> FALSE]
    /\ \A r \in Reqs : hpc[r] = "none"
    /\ hcfg' \in [connect : BOOLEAN, websocket : BOOLEAN]
    /\ hcfg' # hcfg
    /\ UNCHANGED <<closed, conns, loopPc, connVars, ledger, accVars, reads,
                   closePc, hpc, hreq, hkey, hres, hncons, hret, ledger0>>

\* strings.TrimPrefix(s, p)
TrimPrefix(s, p) ==
    IF Len(s) >= Len(p) /\ SubSeq(s, 1, Len(p)) = p
    THEN SubSeq(s, Len(p) + 1, Len(s))
    ELSE s

\* The value checked and used as the key of a CONNECT request.
AuthOf(q) == TrimPrefix(q.auth, Basic)

\* A slip: the check of r.ProtoMajor is missing.
ConnectAcceptsAnyProto(q, l) ==
    /\ Len(AuthOf(q)) = HeaderLen
    /\ Validate(l, AuthOf(q))

\* The three checks of the CONNECT branch: none of them hands the request
\* to the next handler.
ConnectAccepts(q, l) ==
    /\ q.proto # 1
    /\ Len(AuthOf(q)) = HeaderLen
    /\ Validate(l, AuthOf(q))

\* io.ReadFull(c, b[:]) fails when the peer sends fewer than HeaderLen+2 bytes.
ReadFullFails(q) == Len(q.frame) < HeaderLen + 2

\* ServeHTTP up to the relay or to its return, for a request q.
HServe(r) ==
    /\ hpc[r] = "none"
    /\ \E q \in Requests :
        /\ hreq' = [hreq EXCEPT ![r] = q]
        /\ IF hcfg.connect /\ q.method = "CONNECT"
           THEN IF ConnectAccepts(q, ledger)
                THEN /\ hkey' = [hkey EXCEPT ![r] = AuthOf(q)]
                     /\ hpc' = [hpc EXCEPT ![r] = "relay"]
                     /\ hret' = hret
                ELSE /\ hret' = [hret EXCEPT ![r] = "next"]
                     /\ hpc' = [hpc EXCEPT ![r] = "done"]
                     /\ hkey' = hkey
           ELSE IF hcfg.websocket /\ q.upgrade # "none"
           THEN IF q.upgrade = "err"
                THEN /\ hret' = [hret EXCEPT ![r] = "err"]
                     /\ hpc' = [hpc EXCEPT ![r] = "done"]
                     /\ hkey' = hkey
                ELSE IF ReadFullFails(q) \/ ~Validate(ledger, KeyOf(q.frame))
                THEN /\ hret' = [hret EXCEPT ![r] = "nil"]
                     /\ hpc' = [hpc EXCEPT ![r] = "done"]
                     /\ hkey' = hkey
                ELSE /\ hkey' = [hkey EXCEPT ![r] = KeyOf(q.frame)]
                     /\ hpc' = [hpc EXCEPT ![r] = "relay"]
                     /\ hret' = hret
           ELSE /\ hret' = [hret EXCEPT ![r] = "next"]
                /\ hpc' = [hpc EXCEPT ![r] = "done"]
                /\ hkey' = hkey
    /\ UNCHANGED <<closed, conns, loopPc, connVars, ledger, accVars, reads,
                   closePc, hcfg, hres, hncons, ledger0>>

\* trojan.HandleWithDialer returns (nr, nw, err); an error is only logged.
HRelay(r) ==
    /\ hpc[r] = "relay"
    /\ \E x \in RelayResults : hres' = [hres EXCEPT ![r] = x]
    /\ hpc' = [hpc EXCEPT ![r] = "consume"]
    /\ UNCHANGED <<closed, conns, loopPc, connVars, ledger, accVars, reads,
                   closePc, hcfg, hreq, hkey, hncons, hret, ledger0>>

\* A slip: the counters are set to the counts of this relay.
HConsumeOverwrites(r) ==
    /\ hpc[r] = "consume"
    /\ ledger' = IF hkey[r] \in DOMAIN ledger
                 THEN [ledger EXCEPT ![hkey[r]] = <<hres[r][1], hres[r][2]>>]
                 ELSE ledger
    /\ hncons' = [hncons EXCEPT ![r] = @ + 1]
    /\ hret' = [hret EXCEPT ![r] = "nil"]
    /\ hpc' = [hpc EXCEPT ![r] = "done"]
    /\ UNCHANGED <<closed, conns, loopPc, connVars, accVars, reads,
                   closePc, hcfg, hreq, hkey, hres, ledger0>>

\* m.upstream.Consume(key, nr, nw); return nil
HConsume(r) ==
    /\ hpc[r] = "consume"
    /\ ledger' = Consume(ledger, hkey[r], hres[r][1], hres[r][2])
    /\ hncons' = [hncons EXCEPT ![r] = @ + 1]
    /\ hret' = [hret EXCEPT ![r] = "nil"]
    /\ hpc' = [hpc EXCEPT ![r] = "done"]
    /\ UNCHANGED <<closed, conns, loopPc, connVars, accVars, reads,
                   closePc, hcfg, hreq, hkey, hres, ledger0>>

----------------------------------------------------------------------------

\* Every step but Close.
Steps ==
    \/ AddUser
    \/ DelUser
    \/ \E c \in Conns : RawAccept(c)
    \/ RawAcceptErr
    \/ \E c \in Conns : ReadEOF(c)
    \/ \E c \in Conns : ReadErr(c)
    \/ \E c \in Conns : ReadZero(c)
    \/ \E c \in Conns : ReadByte(c)
    \/ \E c \in Conns : ValidateStep(c)
    \/ \E c \in Conns : SelectClosed(c)
    \/ \E c \in Conns : SelectDefault(c)
    \/ \E c \in Conns : Send(c)
    \/ \E c \in Conns : Relay(c)
    \/ \E c \in Conns : ConsumeStep(c)
    \/ \E c \in Conns : DeferClose(c)
    \/ AcceptCall
    \/ AcceptClosed
    \/ AcceptConn

Next ==
    \/ Steps
    \/ Close

Spec == Init /\ [][Next]_vars

\* The goroutine steps, run by the Go scheduler whenever they can run. The
\* callers of Accept and Close, the clients and the administrator are outside
\* the program and are promised nothing.
Fairness ==
    /\ \A c \in Conns : WF_vars(ValidateStep(c))
    /\ \A c \in Conns : WF_vars(SelectClosed(c))
    /\ \A c \in Conns : WF_vars(SelectDefault(c))
    /\ \A c \in Conns : WF_vars(Send(c))
    /\ \A c \in Conns : WF_vars(ConsumeStep(c))
    /\ \A c \in Conns : WF_vars(DeferClose(c))
    /\ WF_vars(AcceptClosed \/ AcceptConn)

FairSpec == Spec /\ Fairness

\* The listener with Close called from several goroutines. A panic is where
\* a run of interest ends; the steps of the other goroutines are not cut off.
NextClose ==
    \/ Steps
    \/ \E k \in Closers : CloseCheck(k)
    \/ \E k \in Closers : CloseFire(k)

CloseSpec == Init /\ [][NextClose]_vars

\* The handler serving requests while the administrator edits the ledger.
NextHandler ==
    \/ UnmarshalCaddyfile
    \/ AddUser
    \/ DelUser
    \/ \E r \in Reqs : HServe(r)
    \/ \E r \in Reqs : HRelay(r)
    \/ \E r \in Reqs : HConsume(r)

HandlerSpec == Init /\ [][NextHandler]_vars

\* Relays about to run together under one key: every connection has sent the
\* key, CR and LF and stands before up.Validate; every request is a CONNECT
\* request that has passed the three checks. The key is in the ledger, with
\* counters left by earlier relays.
InitRelay ==
    /\ closed = FALSE
    /\ conns = <<>>
    /\ loopPc = "run"
    /\ pc = [c \in Conns |-> "validate"]
    /\ n = [c \in Conns |-> HeaderLen + 2]
    /\ b = [c \in Conns |-> Key \o <<13, LF>>]
    /\ got = [c \in Conns |-> Key \o <<13, LF>>]
    /\ prefix = [c \in Conns |-> <<>>]
    /\ cause = [c \in Conns |-> "none"]
    /\ nclose = [c \in Conns |-> 0]
    /\ validated = [c \in Conns |-> "none"]
    /\ res = [c \in Conns |-> NoRes]
    /\ ncons = [c \in Conns |-> 0]
    /\ ledger \in {[k \in {Key} |-> x] : x \in {<<0, 0>>, <<2, 1>>}}
    /\ accPc = "idle"
    /\ accRet = NoRet
    /\ delivered = <<>>
    /\ reads = NumConns * (HeaderLen + 2)
    /\ closePc = [k \in Closers |-> "idle"]
    /\ hcfg = [connect |-> TRUE, websocket |-> FALSE]
    /\ hpc = [r \in Reqs |-> "relay"]
    /\ hreq = [r \in Reqs |-> [method |-> "CONNECT", proto |-> 2,
                                auth |-> Basic \o Key, upgrade |-> "none",
                                frame |-> <<>>]]
    /\ hkey = [r \in Reqs |-> Key]
    /\ hres = [r \in Reqs |-> NoRes]
    /\ hncons = [r \in Reqs |-> 0]
    /\ hret = [r \in Reqs |-> "none"]
    /\ ledger0 = ledger

\* The relays and their Consume calls, in any interleaving; nobody removes
\* the key.
NextRelay ==
    \/ \E c \in Conns : ValidateStep(c)
    \/ \E c \in Conns : Relay(c)
    \/ \E c \in Conns : ConsumeStep(c)
    \/ \E c \in Conns : DeferClose(c)
    \/ \E r \in Reqs : HRelay(r)
    \/ \E r \in Reqs : HConsume(r)

RelaySpec == InitRelay /\ [][NextRelay]_vars

----------------------------------------------------------------------------
\* Vocabulary of the properties.

\* c sits in l.conns.
InQueue(c) == \E i \in 1..Len(conns) : conns[i].conn = c
\* The exposed Accept has returned c.
WasDelivered(c) == \E i \in 1..Len(delivered) : delivered[i].conn = c
\* c was sent on l.conns.
Enqueued(c) == InQueue(c) \/ WasDelivered(c)
\* Every rewound connection sent on l.conns so far.
Handed == conns \o delivered
\* c has reached an enqueue point of the goroutine.
Fallback(c) == cause[c] \in {"lf", "err", "invalid"}
\* c was passed to trojan.HandleWithDialer.
Relayed(c) == pc[c] \in {"relay", "consume", "defer"} \/ ncons[c] > 0
\* No line-feed among the first m bytes of s.
NoLF(s, m) == \A i \in 1..m : s[i] # LF

----------------------------------------------------------------------------
\* C1: every rewound connection sent on l.conns carries as its prefix exactly
\* the bytes the sniffer consumed from that connection, in order.
C1_RewindIsConsumed ==
    \A i \in 1..Len(Handed) : Handed[i].prefix = got[Handed[i].conn]

\* C2: a connection is relayed only after HeaderLen+2 bytes were read with no
\* early line-feed and Validate returned true; a rejected connection is never
\* relayed and never consumes.
C2_RelayOnlyIfValidHeader ==
    \A c \in Conns :
        /\ Relayed(c) =>
            /\ Len(got[c]) = HeaderLen + 2
            /\ NoLF(got[c], HeaderLen + 1)
            /\ validated[c] = "ok"
        /\ validated[c] = "rejected" => ~Relayed(c) /\ ncons[c] = 0

\* C3: a line-feed as byte k of the stream (counted from 0), k < HeaderLen+1,
\* with no line-feed before it, sends the connection to fallback with the k+1
\* bytes read as prefix, without validation and without a further read.
C3_EarlyLFRewind ==
    \A c \in Conns :
        (/\ got[c] # <<>>
         /\ Len(got[c]) - 1 < HeaderLen + 1
         /\ got[c][Len(got[c])] = LF
         /\ NoLF(got[c], Len(got[c]) - 1))
        => /\ cause[c] = "lf"
           /\ prefix[c] = got[c]
           /\ Len(prefix[c]) = Len(got[c])
           /\ validated[c] = "none"
           /\ pc[c] \in {"select", "send", "done"}

\* C4: a connection that sends a key of the ledger followed by two bytes other
\* than CR LF is never sent to fallback.
C4_KeyThenOtherNeverFallback ==
    \A c \in Conns :
        (/\ Validate(ledger, Key)
         /\ Len(got[c]) > HeaderLen
         /\ KeyOf(got[c]) = Key
         /\ \/ got[c][HeaderLen + 1] # 13
            \/ Len(got[c]) = HeaderLen + 2 /\ got[c][HeaderLen + 2] # LF)
        => ~Fallback(c) /\ ~Enqueued(c)

\* C5: when all HeaderLen+2 bytes were read and Validate rejected the key, the
\* connection is at the enqueue point with the full HeaderLen+2 bytes read as
\* prefix; it is enqueued with that prefix, and the sniffer closes it only
\* when l.closed was seen closed.
C5_RejectedRewindsAll ==
    \A c \in Conns :
        (validated[c] = "rejected" /\ Len(got[c]) = HeaderLen + 2)
        => /\ cause[c] = "invalid"
           /\ prefix[c] = got[c]
           /\ Len(prefix[c]) = HeaderLen + 2
           /\ pc[c] \in {"select", "send", "done"}
           /\ nclose[c] > 0 => closed /\ nclose[c] = 1 /\ ~Enqueued(c)
           /\ (pc[c] = "done" /\ nclose[c] = 0) =>
                \E i \in 1..Len(Handed) :
                    Handed[i] = [conn |-> c, prefix |-> got[c]]

\* C5 witness: a rejected full header was enqueued while the sniffer was open.
C5_Witness ==
    \E c \in Conns :
        /\ validated[c] = "rejected"
        /\ Len(got[c]) = HeaderLen + 2
        /\ InQueue(c)
        /\ ~closed

\* C6: after a read error that is not end-of-stream the connection is at the
\* enqueue point with exactly the bytes read so far as prefix, neither
\* validated nor relayed.
C6_ErrRewindsRead ==
    \A c \in Conns :
        cause[c] = "err"
        => /\ prefix[c] = got[c]
           /\ validated[c] = "none"
           /\ ~Relayed(c)

\* C7: after end-of-stream the connection is closed by the sniffer, once, and
\* is never enqueued, validated, relayed or consumed.
C7_EOFAbandons ==
    \A c \in Conns :
        cause[c] = "eof"
        => /\ pc[c] = "done"
           /\ nclose[c] = 1
           /\ ~Enqueued(c)
           /\ validated[c] = "none"
           /\ res[c] = NoRes
           /\ ncons[c] = 0

\* C7 witness: end-of-stream in the middle of the header.
C7_Witness ==
    \E c \in Conns : cause[c] = "eof" /\ got[c] # <<>> /\ nclose[c] = 1

\* C8: once l.closed is closed, no goroutine sends its connection on l.conns.
C8_NoEnqueueAfterClose ==
    [][closed => \A c \in Conns : ~(pc[c] = "send" /\ pc'[c] = "done")]_vars

\* C9: a goroutine blocked in its send on l.conns does not stay blocked once
\* l.closed is closed.
C9_BlockedSendUnblocks ==
    \A c \in Conns : (pc[c] = "send" /\ closed) ~> (pc[c] # "send")

\* C10: with l.closed closed and l.conns empty, a waiting Accept can return,
\* and what it returns is (nil, os.ErrClosed).
C10_AcceptAfterClose ==
    /\ []((closed /\ conns = <<>> /\ accPc = "waiting") => ENABLED AcceptClosed)
    /\ [][(closed /\ conns = <<>> /\ accPc = "waiting" /\ accPc' = "idle")
            => accRet' = ErrClosedRet]_vars

\* C10 witness: Accept returned os.ErrClosed though no connection was ever
\* accepted, so l.conns was empty throughout.
C10_Witness ==
    /\ accRet = ErrClosedRet
    /\ accPc = "idle"
    /\ closed
    /\ \A c \in Conns : pc[c] = "none"

\* C11: whatever the callers of Close do, none of them panics, each call
\* returns, and l.closed is closed once.
C11_CloseNeverPanics ==
    \A k \in Closers : closePc[k] # "panic"

\* C12: once l.closed is closed, a connection the raw listener returns is not
\* handed to a sniffing goroutine: it stays unaccepted or is dropped at once.
C12_LateConnDropped ==
    [][\A c \in Conns :
        (closed /\ pc[c] = "none") => pc'[c] \in {"none", "done"}]_vars

\* C13: a validated connection is never at an enqueue point or in the queue;
\* Consume is called once, when the relay has returned, with the key and the
\* counts the relay returned; c.Close() is called once, after Consume.
C13_RelayConsumeClose ==
    /\ [](\A c \in Conns :
            validated[c] = "ok"
            => /\ ~Fallback(c)
               /\ ~Enqueued(c)
               /\ pc[c] \in {"relay", "consume", "defer", "done"}
               /\ ncons[c] = (IF pc[c] \in {"defer", "done"} THEN 1 ELSE 0)
               /\ nclose[c] = (IF pc[c] = "done" THEN 1 ELSE 0))
    /\ [][\A c \in Conns :
            ncons'[c] # ncons[c]
            => /\ validated[c] = "ok"
               /\ pc[c] = "consume"
               /\ res[c] \in RelayResults
               /\ ledger' = Consume(ledger, Key, res[c][1], res[c][2])]_vars

\* C13 witness: a relay that returned an error was consumed and closed.
C13_Witness ==
    \E c \in Conns :
        pc[c] = "done" /\ res[c][3] /\ ncons[c] = 1 /\ nclose[c] = 1

\* C15: the scan position never runs ahead of the bytes read, and at
\* validation the buffer holds exactly the HeaderLen+2 bytes read.
C15_ScanKeepsStream ==
    \A c \in Conns :
        /\ n[c] <= Len(got[c])
        /\ pc[c] = "validate" => b[c] = got[c]

\* C16: while the loop runs, the next connection can be accepted whatever the
\* goroutines of the earlier connections are doing.
C16_AcceptNeverWaits ==
    \A c \in Conns :
        (loopPc = "run" /\ pc[c] = "none" /\ \A d \in Conns : d < c => pc[d] # "none")
        => ENABLED RawAccept(c)

\* C16 witness: a connection was accepted while an earlier one is relaying.
C16_Witness ==
    \E c, d \in Conns : c < d /\ pc[c] = "relay" /\ pc[d] = "read"

\* C18: the step that closes l.closed changes nothing else, and with l.closed
\* closed a relay in flight can still return, consume and close.
C18_CloseOnlySignals ==
    /\ [][closed' # closed
            => closed' /\ UNCHANGED <<conns, loopPc, connVars, ledger, accVars>>]_vars
    /\ [](closed => \A c \in Conns :
            /\ pc[c] = "relay" => ENABLED Relay(c)
            /\ pc[c] = "consume" => ENABLED ConsumeStep(c)
            /\ pc[c] = "defer" => ENABLED DeferClose(c))

\* C18 witness: l.closed is closed, a relay has returned and is about to
\* consume.
C18_Witness ==
    closed /\ \E c \in Conns : pc[c] = "consume" /\ res[c] = <<2, 1, FALSE>>

\* The three ways a goroutine ends.
EndClosed(c) ==
    nclose[c] = 1 /\ ~Enqueued(c) /\ ncons[c] = 0 /\ validated[c] # "ok"
EndEnqueued(c) == Enqueued(c) /\ nclose[c] = 0 /\ ncons[c] = 0
EndRelayed(c) ==
    validated[c] = "ok" /\ ncons[c] = 1 /\ nclose[c] = 1 /\ ~Enqueued(c)

\* C19: a finished goroutine ended in exactly one of the three ways; an
\* enqueued connection was not closed by the sniffer nor relayed, and a closed
\* one was not enqueued.
C19_OneOutcome ==
    \A c \in Conns :
        /\ Enqueued(c) => nclose[c] = 0 /\ ~Relayed(c) /\ pc[c] = "done"
        /\ nclose[c] > 0 => ~Enqueued(c) /\ nclose[c] = 1 /\ pc[c] = "done"
        /\ pc[c] = "done" =>
            /\ EndClosed(c) \/ EndEnqueued(c) \/ EndRelayed(c)
            /\ ~(EndClosed(c) /\ EndEnqueued(c))
            /\ ~(EndClosed(c) /\ EndRelayed(c))
            /\ ~(EndEnqueued(c) /\ EndRelayed(c))

\* C19 witness: one connection ended enqueued, another closed after the
\* sniffer was closed.
C19_Witness ==
    \E c, d \in Conns :
        /\ EndEnqueued(c) /\ pc[c] = "done"
        /\ EndClosed(d) /\ pc[d] = "done" /\ cause[d] = "lf"

HRelayed(r) == hpc[r] \in {"relay", "consume"} \/ hres[r] # NoRes
\* Request r is a CONNECT request served with connect_method enabled.
ConnectCase(r) ==
    hpc[r] # "none" /\ hcfg.connect /\ hreq[r].method = "CONNECT"

\* C20: with connect_method enabled, a CONNECT request is relayed exactly when
\* its major version is not 1, its Proxy-Authorization without a leading
\* "Basic " has length HeaderLen and Validate accepts it; then Consume is
\* called once, with that key and the relay's counts, after the relay has
\* returned, and the next handler is not called. Any other CONNECT request
\* goes to the next handler with no relay and no Consume.
C20_ConnectRelay ==
    /\ [](\A r \in Reqs : ConnectCase(r) =>
            IF HRelayed(r)
            THEN /\ hreq[r].proto # 1
                 /\ Len(TrimPrefix(hreq[r].auth, Basic)) = HeaderLen
                 /\ hkey[r] = TrimPrefix(hreq[r].auth, Basic)
                 /\ hret[r] = IF hpc[r] = "done" THEN "nil" ELSE "none"
                 /\ hncons[r] = IF hpc[r] = "done" THEN 1 ELSE 0
            ELSE /\ hpc[r] = "done"
                 /\ hret[r] = "next"
                 /\ hncons[r] = 0)
    /\ [][\A r \in Reqs :
            (hpc[r] = "none" /\ hpc'[r] # "none" /\ hcfg.connect
                /\ hreq'[r].method = "CONNECT") =>
              (hpc'[r] = "relay" <=>
                 /\ hreq'[r].proto # 1
                 /\ Len(TrimPrefix(hreq'[r].auth, Basic)) = HeaderLen
                 /\ TrimPrefix(hreq'[r].auth, Basic) \in DOMAIN ledger)]_vars
    /\ [][\A r \in Reqs :
            (hncons'[r] # hncons[r] /\ ConnectCase(r)) =>
              /\ hpc[r] = "consume"
              /\ hres[r] \in RelayResults
              /\ ledger' = Consume(ledger, TrimPrefix(hreq[r].auth, Basic),
                                   hres[r][1], hres[r][2])]_vars

\* A CONNECT request over HTTP/2 with "Basic " and the key has been relayed
\* and its counts consumed.
C20_Witness ==
    \E r \in Reqs :
        /\ ConnectCase(r)
        /\ hreq[r].proto = 2
        /\ hreq[r].auth = Basic \o Key
        /\ hpc[r] = "done"
        /\ hres[r] = <<2, 1, FALSE>>
        /\ hncons[r] = 1
        /\ Key \in DOMAIN ledger /\ ledger[Key] = <<2, 1>>

\* The sum of the i-th count of the results f over the relays in S.
RECURSIVE SumRes(_, _, _)
SumRes(f, S, i) ==
    IF S = {} THEN 0
    ELSE LET x == CHOOSE y \in S : TRUE
         IN f[x][i] + SumRes(f, S \ {x}, i)

\* Every relay has returned and its goroutine or request has ended.
AllRelaysDone ==
    /\ \A c \in Conns : pc[c] = "done"
    /\ \A r \in Reqs : hpc[r] = "done"

\* C14: relays running together under one key that stays in the ledger. At
\* every moment the key's counters are their initial values plus the counts
\* of the relays that have consumed so far; once all have completed they
\* are the initial values plus the counts of every relay.
C14_ConsumeAdds ==
    /\ Key \in DOMAIN ledger
    /\ \A i \in {1, 2} :
          ledger[Key][i] = ledger0[Key][i]
              + SumRes(res, {c \in Conns : ncons[c] > 0}, i)
              + SumRes(hres, {r \in Reqs : hncons[r] > 0}, i)
    /\ AllRelaysDone =>
          /\ \A c \in Conns : ncons[c] = 1
          /\ \A r \in Reqs : hncons[r] = 1
          /\ \A i \in {1, 2} :
                ledger[Key][i] = ledger0[Key][i]
                    + SumRes(res, Conns, i) + SumRes(hres, Reqs, i)

\* All relays have completed, a listener relay and a handler relay both
\* moved bytes, and the counters started above zero.
C14_Witness ==
    /\ AllRelaysDone
    /\ \E c \in Conns, r \in Reqs :
          res[c] = <<2, 1, FALSE>> /\ hres[r] = <<2, 1, FALSE>>
    /\ ledger0[Key] = <<2, 1>>
    /\ ledger[Key][1] >= 6

============================================================================
